---- MODULE Spec2Model ----
(***************************************************************************)
(* Execution core of the nesem 6502 interpreter: the processor State       *)
(* (src/interp/state.rs), the operand resolver (operand_decoder.rs), the   *)
(* control handlers (execution.rs) and the ALU handlers (alu.rs).          *)
(*                                                                         *)
(* A handler is an operator from a State record to a State record.  A Rust *)
(* panic is the field `panicked` of that record: once it is set, every     *)
(* later step of the handler is skipped and the record keeps the writes    *)
(* made before the panic.  An action performs one whole handler call on    *)
(* the machine's variables and records the call and the state before it.   *)
(***************************************************************************)
EXTENDS Integers, Sequences, FiniteSets, TLC

VARIABLES
    pc,               \* State::pc: u16
    sp,               \* State::sp: u8
    psw,              \* State::psw: u8
    accumulator,      \* State::accumulator: u8
    x,                \* State::x: u8
    y,                \* State::y: u8
    ram,              \* State::ram: [u8; 0x800], kept as its non-zero bytes
    panicked,         \* a handler has panicked: the run is over
    overflow_checks,  \* build profile: TRUE = arithmetic overflow panics (debug)
    last,             \* the latest call: name, arguments, result, State before it
    prior,            \* the call before `last`
    older,            \* the call before `prior`
    oldest,           \* the call before `older`
    ncalls,           \* number of calls made so far
    limit             \* number of calls the run is followed for

vars == <<pc, sp, psw, accumulator, x, y, ram, panicked, overflow_checks,
          last, prior, older, oldest, ncalls, limit>>

----------------------------------------------------------------------------
(* Bounds of the model *)

\* longest sequence of calls explored after the owner has set the State up
MaxCalls == 2

\* the same, where every value of psw is explored
MaxFlagCalls == 1

\* the same, for adc, set_carry and sbc in a row
MaxInverseCalls == 3

\* the same, for the branch instructions
MaxBranchCalls == 1

\* the same, for the operand resolver
MaxDecoderCalls == 1

\* the same, for handlers called with an operand shape they do not accept
MaxShapeCalls == 1

\* handler and primitive calls in a run of pushes and pops
MaxLifoCalls == 4

----------------------------------------------------------------------------
(* Fixed-width integers *)

Byte == 0..255

\* `as u8`, and the result of u8 wrapping arithmetic
U8(n) == n % 256

\* `as u16`, and the result of u16 wrapping arithmetic
U16(n) == n % 65536

\* bit k of v
BitAt(v, k) == (v \div (2 ^ k)) % 2

\* a & b on 16-bit operands (u8 operands are the low half)
BitAnd(a, b) ==
    LET RECURSIVE go(_)
        go(k) == IF k = 16 THEN 0
                 ELSE (2 ^ k) * (BitAt(a, k) * BitAt(b, k)) + go(k + 1)
    IN go(0)

\* a | b on 16-bit operands
BitOr(a, b) ==
    LET RECURSIVE go(_)
        go(k) == IF k = 16 THEN 0
                 ELSE (2 ^ k) * (IF BitAt(a, k) + BitAt(b, k) > 0 THEN 1 ELSE 0)
                      + go(k + 1)
    IN go(0)

\* a ^ b on 16-bit operands
BitXor(a, b) ==
    LET RECURSIVE go(_)
        go(k) == IF k = 16 THEN 0
                 ELSE (2 ^ k) * ((BitAt(a, k) + BitAt(b, k)) % 2) + go(k + 1)
    IN go(0)

\* !m on u8
BitNot8(m) == 255 - m

----------------------------------------------------------------------------
(* state.rs: constants *)

PSW_CARRY_BIT == 1
PSW_ZERO_BIT == 2
PSW_INTERRUPT_BIT == 4
PSW_DECIMAL_BIT == 8
PSW_BREAK_BIT == 16
PSW_ONE_BIT == 32
PSW_OVERFLOW_BIT == 64
PSW_NEGATIVE_BIT == 128

STACK_OFFSET == 256

\* length of State::ram
RamSize == 2048

----------------------------------------------------------------------------
(* state.rs: the State struct as a value *)

\* ram holds the non-zero bytes only; every other byte of the array is 0
Load(mem, addr) == IF addr \in DOMAIN mem THEN mem[addr] ELSE 0

Store(mem, addr, value) ==
    IF value = 0
    THEN [a \in (DOMAIN mem) \ {addr} |-> mem[a]]
    ELSE [a \in (DOMAIN mem) \cup {addr} |-> IF a = addr THEN value ELSE mem[a]]

EmptyRam == [a \in {} |-> 0]

\* the machine's variables as one State value
Cur ==
    [pc |-> pc, sp |-> sp, psw |-> psw, accumulator |-> accumulator,
     x |-> x, y |-> y, ram |-> ram, panicked |-> panicked]

Panic(s) == [s EXCEPT !.panicked = TRUE]

\* a handler's result: the State after it, and the value it returns
Ret(s, v) == [v |-> v, s |-> s]

new_undefined ==
    [pc |-> 0, sp |-> 0, psw |-> PSW_ONE_BIT, accumulator |-> 0,
     x |-> 0, y |-> 0, ram |-> EmptyRam, panicked |-> FALSE]

\* u16 `a + b`: panics on overflow in a build with overflow checks, wraps otherwise
AddU16(s, a, b) ==
    IF s.panicked THEN Ret(s, 0)
    ELSE IF a + b > 65535 /\ overflow_checks THEN Ret(Panic(s), 0)
    ELSE Ret(s, U16(a + b))

\* u8 `a + b`, as AddU16
AddU8(s, a, b) ==
    IF s.panicked THEN Ret(s, 0)
    ELSE IF a + b > 255 /\ overflow_checks THEN Ret(Panic(s), 0)
    ELSE Ret(s, U8(a + b))

\* u8 `a - b`: panics on overflow in a build with overflow checks, wraps otherwise
SubU8(s, a, b) ==
    IF s.panicked THEN Ret(s, 0)
    ELSE IF a < b /\ overflow_checks THEN Ret(Panic(s), 0)
    ELSE Ret(s, U8(a - b + 256))

\* self.ram[addr as usize]: an index past the array panics
ram_get(s, addr) ==
    IF s.panicked THEN Ret(s, 0)
    ELSE IF addr < RamSize THEN Ret(s, Load(s.ram, addr))
    ELSE Ret(Panic(s), 0)

ram_set(s, addr, value) ==
    IF s.panicked THEN s
    ELSE IF addr < RamSize THEN [s EXCEPT !.ram = Store(s.ram, addr, value)]
    ELSE Panic(s)

\* STACK_OFFSET + self.pc
get_sp(s) == AddU16(s, STACK_OFFSET, s.pc)

stack_push(s, val) ==
    LET a == get_sp(s)
        s1 == ram_set(a.s, a.v, val)
    IN IF s1.panicked THEN s1
       ELSE [s1 EXCEPT !.sp = U8(s1.sp + 255)]

stack_pop(s) ==
    IF s.panicked THEN Ret(s, 0)
    ELSE LET s1 == [s EXCEPT !.sp = U8(s.sp + 1)]
             a == get_sp(s1)
         IN ram_get(a.s, a.v)

push_pc(s) ==
    LET s1 == stack_push(s, U8(s.pc))
    IN stack_push(s1, U8(s1.pc \div 256))

pop_pc(s) ==
    IF s.panicked THEN s
    ELSE LET s0 == [s EXCEPT !.pc = 0]
             hi == stack_pop(s0)
             s1 == IF hi.s.panicked THEN hi.s
                   ELSE [hi.s EXCEPT !.pc = U16(hi.v * 256)]
             lo == stack_pop(s1)
         IN IF lo.s.panicked THEN lo.s
            ELSE [lo.s EXCEPT !.pc = BitOr(lo.s.pc, lo.v)]

\* the setter, had it assigned the whole status byte (a fault C8 must detect)
psw_set_assign(s, mask, v) ==
    IF s.panicked THEN s
    ELSE [s EXCEPT !.psw = IF v THEN mask ELSE 0]

\* psw_getset!: the getter
psw_get(s, mask) == BitAnd(s.psw, mask) > 0

\* psw_getset!: the setter
psw_set(s, mask, v) ==
    IF s.panicked THEN s
    ELSE LET cleared == BitAnd(s.psw, BitNot8(mask))
         IN [s EXCEPT !.psw = IF v THEN BitOr(cleared, mask) ELSE cleared]

get_carry(s) == psw_get(s, PSW_CARRY_BIT)
set_carry(s, v) == psw_set(s, PSW_CARRY_BIT, v)
get_zero(s) == psw_get(s, PSW_ZERO_BIT)
set_zero(s, v) == psw_set(s, PSW_ZERO_BIT, v)
get_interrupt(s) == psw_get(s, PSW_INTERRUPT_BIT)
set_interrupt(s, v) == psw_set(s, PSW_INTERRUPT_BIT, v)
get_break(s) == psw_get(s, PSW_BREAK_BIT)
set_break(s, v) == psw_set(s, PSW_BREAK_BIT, v)
get_overflow(s) == psw_get(s, PSW_OVERFLOW_BIT)
set_overflow(s, v) == psw_set(s, PSW_OVERFLOW_BIT, v)
get_negative(s) == psw_get(s, PSW_NEGATIVE_BIT)
set_negative(s, v) == psw_set(s, PSW_NEGATIVE_BIT, v)

----------------------------------------------------------------------------
(* operand.rs: the Operand enum.  A variant without payload has val 0; the  *)
(* payload of Relative is the i8 itself, -128..127.                         *)

Operand(kind, val) == [val |-> val, kind |-> kind]
Implicit == Operand("Implicit", 0)
Accumulator == Operand("Accumulator", 0)
Immediate(v) == Operand("Immediate", v)
ZeroPage(v) == Operand("ZeroPage", v)
ZeroPageX(v) == Operand("ZeroPageX", v)
ZeroPageY(v) == Operand("ZeroPageY", v)
Relative(v) == Operand("Relative", v)
Absolute(v) == Operand("Absolute", v)
AbsoluteX(v) == Operand("AbsoluteX", v)
AbsoluteY(v) == Operand("AbsoluteY", v)
Indirect(v) == Operand("Indirect", v)
IndexedIndirect(v) == Operand("IndexedIndirect", v)
IndirectIndexed(v) == Operand("IndirectIndexed", v)

----------------------------------------------------------------------------
(* operand_decoder.rs *)

\* an Option<u16> result: the State (a read may panic), Some or None, the value
Opt(s, some, v) == [v |-> v, s |-> s, some |-> some]

\* the load, had it carried out of page zero (a fault C19 must detect)
load_le16_zp_carry(s, addr) ==
    LET lsb == ram_get(s, addr)
        msb == ram_get(lsb.s, addr + 1)
    IN Ret(msb.s, BitOr(U16(msb.v * 256), lsb.v))

load_le16_zp(s, addr) ==
    LET lsb == ram_get(s, addr)
        msb == ram_get(lsb.s, U8(addr + 1))
    IN Ret(msb.s, BitOr(U16(msb.v * 256), lsb.v))

load_le16(s, addr) ==
    LET lsb == ram_get(s, addr)
        msb == ram_get(lsb.s, U16(addr + 1))
    IN Ret(msb.s, BitOr(U16(msb.v * 256), lsb.v))

get_pointer(op, s) ==
    CASE op.kind \in {"Implicit", "Accumulator", "Immediate"} -> Opt(s, FALSE, 0)
      [] op.kind = "ZeroPage" -> Opt(s, TRUE, op.val)
      [] op.kind = "ZeroPageX" -> Opt(s, TRUE, U8(s.x + op.val))
      [] op.kind = "ZeroPageY" -> Opt(s, TRUE, U8(s.y + op.val))
      [] op.kind = "Relative" -> Opt(s, TRUE, U16(s.pc + U16(op.val + 65536)))
      [] op.kind = "Absolute" -> Opt(s, TRUE, op.val)
      [] op.kind = "AbsoluteX" -> Opt(s, TRUE, U16(op.val + s.x))
      [] op.kind = "AbsoluteY" -> Opt(s, TRUE, U16(op.val + s.y))
      [] op.kind = "Indirect" ->
            LET r == load_le16(s, op.val) IN Opt(r.s, TRUE, r.v)
      [] op.kind = "IndexedIndirect" ->
            LET r == load_le16_zp(s, U8(op.val + s.x)) IN Opt(r.s, TRUE, r.v)
      [] op.kind = "IndirectIndexed" ->
            LET table_addr == load_le16(s, op.val)
                r == AddU16(table_addr.s, table_addr.v, s.y)
            IN Opt(r.s, TRUE, r.v)

get_value(op, s) ==
    CASE op.kind = "Implicit" -> Opt(s, FALSE, 0)
      [] op.kind = "Accumulator" -> Opt(s, TRUE, s.accumulator)
      [] op.kind = "Immediate" -> Opt(s, TRUE, op.val)
      [] OTHER ->
            LET p == get_pointer(op, s)
                r == load_le16(p.s, p.v)
            IN IF p.some THEN Opt(r.s, TRUE, r.v) ELSE Opt(p.s, FALSE, 0)

get_u8(op, s) ==
    CASE op.kind = "Implicit" -> Opt(s, FALSE, 0)
      [] op.kind = "Accumulator" -> Opt(s, TRUE, s.accumulator)
      [] op.kind = "Immediate" -> Opt(s, TRUE, op.val)
      [] OTHER ->
            LET p == get_pointer(op, s)
                r == ram_get(p.s, p.v)
            IN IF p.some THEN Opt(r.s, TRUE, r.v) ELSE Opt(p.s, FALSE, 0)

\* set_u8: ptr is the result of get_pointer; the value returned is TRUE for
\* Ok(()) and FALSE for Err(())
set_u8_at(ptr, op, val) ==
    IF ptr.s.panicked THEN Ret(ptr.s, FALSE)
    ELSE IF ptr.some THEN Ret(ram_set(ptr.s, ptr.v, val), TRUE)
    ELSE IF op.kind = "Accumulator"
         THEN Ret([ptr.s EXCEPT !.accumulator = val], TRUE)
    ELSE Ret(ptr.s, FALSE)

set_u8(op, val, s) == set_u8_at(get_pointer(op, s), op, val)

\* Option::unwrap / Option::expect: None panics
\* the unwrap, had it fallen back to a default (a fault C27 must detect)
UnwrapOrDefault(o) == Ret(o.s, o.v)

Unwrap(o) == IF o.some THEN Ret(o.s, o.v) ELSE Ret(Panic(o.s), 0)

----------------------------------------------------------------------------
(* alu.rs *)

is_positive(a) == BitAnd(a, 128) = 0

is_negative(a) == ~is_positive(a)

is_add_overflow(a, b, carry) ==
    IF is_positive(a) # is_positive(b) THEN FALSE
    ELSE LET c == IF carry THEN 1 ELSE 0
             n == U8(U8(a + b) + c)
         IN is_positive(a) # is_positive(n)

\* adc: the writes that follow the sum (new is the sum, with the State it left)
adc_store(new, carry, overflow) ==
    IF new.s.panicked THEN new.s
    ELSE set_zero(
             set_negative(
                 set_overflow(
                     set_carry([new.s EXCEPT !.accumulator = new.v], carry),
                     overflow),
                 BitAnd(new.v, 128) > 0),
             new.v = 0)

\* adc: the sum of the accumulator, the operand's value and the previous carry
adc_sum(s, value, prev_carry) ==
    adc_store(AddU8(s, U8(s.accumulator + value), prev_carry),
              s.accumulator + value > 255,
              is_add_overflow(value, s.accumulator, get_carry(s)))

\* adc: value is the unwrapped result of get_value, with the State it left
adc_value(value) ==
    adc_sum(value.s, U8(value.v), IF get_carry(value.s) THEN 1 ELSE 0)

adc(s, op) == adc_value(Unwrap(get_value(op, s)))

\* the two lines that end most handlers: Zero and Negative from the byte r
set_zero_negative(s, r) ==
    IF s.panicked THEN s
    ELSE set_negative(set_zero(s, r = 0), is_negative(r))

\* and / ora: the accumulator takes r, Zero and Negative follow it
accumulator_store(s, r) ==
    IF s.panicked THEN s
    ELSE set_zero_negative([s EXCEPT !.accumulator = r], r)

\* and: value is the unwrapped result of get_value, with the State it left
and_value(value) ==
    accumulator_store(value.s, BitAnd(value.s.accumulator, U8(value.v)))

and(s, op) == and_value(Unwrap(get_value(op, s)))

\* ora: value is the unwrapped result of get_u8, with the State it left
ora_value(value) ==
    accumulator_store(value.s, BitOr(value.s.accumulator, value.v))

ora(s, op) == ora_value(Unwrap(get_u8(op, s)))

\* eor: r is computed and Zero and Negative follow it; nothing stores r
eor_value(value) ==
    set_zero_negative(value.s, BitXor(value.s.accumulator, value.v))

eor(s, op) == eor_value(Unwrap(get_u8(op, s)))

\* asl: the last two lines; Zero is taken from the accumulator
asl_flags(s, value) ==
    IF s.panicked THEN s
    ELSE set_negative(set_zero(s, s.accumulator = 0), is_negative(value))

\* asl: the match on ptr, s being the State after set_carry
asl_store(s, ptr, op, value) ==
    IF s.panicked THEN s
    ELSE IF ptr.some THEN asl_flags(ram_set(s, ptr.v, value), value)
    ELSE IF op.kind = "Accumulator"
         THEN asl_flags([s EXCEPT !.accumulator = value], value)
    ELSE Panic(s)

\* asl: value is the unwrapped result of get_u8, with the State it left
asl_value(ptr, value, op) ==
    asl_store(set_carry(value.s, is_negative(value.v)), ptr, op, U8(value.v * 2))

asl(s, op) == asl_value(get_pointer(op, s), Unwrap(get_u8(op, s)), op)

\* lsr: s is the State after set_carry, v the shifted value
lsr_store(s, op, v) ==
    IF s.panicked THEN s
    ELSE set_u8(op, v, set_zero_negative(s, v)).s

\* lsr: v is the unwrapped result of get_u8, with the State it left
lsr_value(v, op) ==
    lsr_store(set_carry(v.s, BitAnd(v.v, 1) > 0), op, v.v \div 2)

lsr(s, op) == lsr_value(Unwrap(get_u8(op, s)), op)

\* rol / ror: Carry takes the sign of the value; the rotated value is dropped
rotate_value(value) == set_carry(value.s, is_negative(value.v))

rol(s, op) == rotate_value(Unwrap(get_u8(op, s)))

ror(s, op) == rotate_value(Unwrap(get_u8(op, s)))

\* dec: r is ram[m] - 1 (with the State the read left)
dec_store(r, m) ==
    IF r.s.panicked THEN r.s
    ELSE set_zero_negative(ram_set(r.s, m, U8(r.v + 255)), U8(r.v + 255))

\* dec: m is the unwrapped result of get_pointer
dec_at(m) == dec_store(ram_get(m.s, m.v), m.v)

dec(s, op) == dec_at(Unwrap(get_pointer(op, s)))

\* inc: r is ram[p] (with the State the read left); nothing stores r + 1
inc_flags(r) == set_zero_negative(r.s, U8(r.v + 1))

\* inc: p is the unwrapped result of get_pointer
inc_at(p) == inc_flags(ram_get(p.s, p.v))

inc(s, op) == inc_at(Unwrap(get_pointer(op, s)))

\* dex / inx: x takes r
x_store(s, r) ==
    IF s.panicked THEN s
    ELSE set_zero_negative([s EXCEPT !.x = r], r)

\* dey / iny: y takes r
y_store(s, r) ==
    IF s.panicked THEN s
    ELSE set_zero_negative([s EXCEPT !.y = r], r)

dex(s, op) == x_store(s, U8(s.x + 255))
dey(s, op) == y_store(s, U8(s.y + 255))
inx(s, op) == x_store(s, U8(s.x + 1))
iny(s, op) == y_store(s, U8(s.y + 1))

is_sub_overflow(a, b, carry) ==
    IF is_positive(a) = is_positive(b) THEN FALSE
    ELSE LET c == IF carry THEN 0 ELSE 1
             n == U8(U8(a - b + 256) - c + 256)
         IN is_positive(a) # is_positive(n)

\* compare!: the writes that follow the subtraction a - m (result, with its State)
compare_store(result, a, m) ==
    IF result.s.panicked THEN result.s
    ELSE set_negative(
             set_zero(set_carry(result.s, a >= m), result.v = 0),
             is_negative(result.v))

\* compare!: m is the unwrapped result of get_u8 (with its State), a the register
compare(m, a) == compare_store(SubU8(m.s, a, m.v), a, m.v)

cmp(s, op) == compare(Unwrap(get_u8(op, s)), s.accumulator)
cpx(s, op) == compare(Unwrap(get_u8(op, s)), s.x)
cpy(s, op) == compare(Unwrap(get_u8(op, s)), s.y)

\* sbc: the writes that follow the difference (new, with the State it left)
sbc_store(new, carry, overflow) ==
    IF new.s.panicked THEN new.s
    ELSE set_negative(
             set_overflow(
                 set_carry(
                     set_zero([new.s EXCEPT !.accumulator = new.v], new.v = 0),
                     ~carry),
                 overflow),
             is_negative(new.v))

\* the difference, had sbc taken the Carry itself for the borrow (a fault C14
\* must detect)
sbc_diff_carry(s, a, b, c) ==
    sbc_store(SubU8(s, U8(a - b + 256), c),
              a < b,
              is_sub_overflow(a, b, get_carry(s)))

\* sbc: a - b, then less the borrow 1 - c
sbc_diff(s, a, b, c) ==
    sbc_store(SubU8(s, U8(a - b + 256), 1 - c),
              a < b,
              is_sub_overflow(a, b, get_carry(s)))

\* sbc: b is the unwrapped result of get_u8, with the State it left
sbc_value(b, a) == sbc_diff(b.s, a, b.v, IF get_carry(b.s) THEN 1 ELSE 0)

sbc(s, op) == sbc_value(Unwrap(get_u8(op, s)), s.accumulator)

----------------------------------------------------------------------------
(* execution.rs *)

\* the branch, had it zero-extended the offset (a fault C16 must detect)
branch_inst_unsigned(s, op, pred) ==
    IF s.panicked THEN s
    ELSE IF op.kind # "Relative" THEN Panic(s)
    ELSE IF pred THEN [s EXCEPT !.pc = U16(s.pc + U8(op.val + 256))]
    ELSE s

\* branch_inst!: pred is the value of the instruction's predicate on the State
branch_inst(s, op, pred) ==
    IF s.panicked THEN s
    ELSE IF op.kind # "Relative" THEN Panic(s)
    ELSE IF pred THEN [s EXCEPT !.pc = U16(s.pc + U16(op.val + 65536))]
    ELSE s

bcc(s, op) == branch_inst(s, op, ~get_carry(s))
bcs(s, op) == branch_inst(s, op, get_carry(s))
beq(s, op) == branch_inst(s, op, get_zero(s))
bne(s, op) == branch_inst(s, op, ~get_zero(s))
bmi(s, op) == branch_inst(s, op, get_negative(s))
bpl(s, op) == branch_inst(s, op, ~get_negative(s))
bvc(s, op) == branch_inst(s, op, ~get_overflow(s))
bvs(s, op) == branch_inst(s, op, get_overflow(s))

\* bit, had it taken the two flags from the operand alone (a fault C29 must
\* detect)
bit_value_operand(v, a) ==
    IF v.s.panicked THEN v.s
    ELSE set_overflow(
             set_negative(v.s, BitAnd(v.v, 128) > 0),
             BitAnd(v.v, 64) > 0)

\* bit: v is the unwrapped result of get_u8 (with its State), a the accumulator
bit_value(v, a) ==
    IF v.s.panicked THEN v.s
    ELSE set_overflow(
             set_negative(v.s, BitAnd(BitAnd(a, v.v), 128) > 0),
             BitAnd(BitAnd(a, v.v), 64) > 0)

bit(s, op) == bit_value(Unwrap(get_u8(op, s)), s.accumulator)

brk(s, op) ==
    IF s.panicked THEN s
    ELSE IF op # Implicit THEN Panic(s)
    ELSE LET s1 == push_pc(s)
             s2 == stack_push(s1, s1.psw)
             s3 == set_break(s2, TRUE)
             d == Unwrap(get_pointer(Indirect(65534), s3))
         IN IF d.s.panicked THEN d.s
            ELSE [d.s EXCEPT !.pc = d.v]

rti(s, op) ==
    IF s.panicked THEN s
    ELSE IF op # Implicit THEN Panic(s)
    ELSE LET r == stack_pop(s)
             s1 == IF r.s.panicked THEN r.s ELSE [r.s EXCEPT !.psw = r.v]
         IN pop_pc(s1)

\* flag!
clc(s, op) == set_carry(s, FALSE)
sec(s, op) == set_carry(s, TRUE)
cli(s, op) == set_interrupt(s, FALSE)
sei(s, op) == set_interrupt(s, TRUE)
clv(s, op) == set_interrupt(s, FALSE)

jsr(s, op) ==
    LET d == Unwrap(get_pointer(op, s))
        s1 == push_pc(d.s)
    IN IF s1.panicked THEN s1
       ELSE [s1 EXCEPT !.pc = d.v]

pha(s, op) == stack_push(s, s.accumulator)

php(s, op) == stack_push(s, s.psw)

pla(s, op) ==
    LET r == stack_pop(s)
        s1 == IF r.s.panicked THEN r.s ELSE [r.s EXCEPT !.accumulator = r.v]
        s2 == set_zero(s1, s1.accumulator = 0)
    IN set_negative(s2, is_negative(s2.accumulator))

plp(s, op) ==
    LET r == stack_pop(s)
    IN IF r.s.panicked THEN r.s ELSE [r.s EXCEPT !.psw = r.v]

rts(s, op) == pop_pc(s)

----------------------------------------------------------------------------
(* The machine: one action per call *)

\* the record of a call
Call(fn, op, val, flag, ret, pre) ==
    [val |-> val, op |-> op, fn |-> fn, flag |-> flag, ret |-> ret, pre |-> pre]

\* the machine takes the State s
Take(s) ==
    /\ pc' = s.pc
    /\ sp' = s.sp
    /\ psw' = s.psw
    /\ accumulator' = s.accumulator
    /\ x' = s.x
    /\ y' = s.y
    /\ ram' = s.ram
    /\ panicked' = s.panicked
    /\ UNCHANGED <<overflow_checks, limit>>

\* the call returns: the machine takes the State s, and the call is recorded
Commit(s, fn, op, val, flag, ret) ==
    /\ Take(s)
    /\ last' = Call(fn, op, val, flag, ret, Cur)
    /\ prior' = last
    /\ older' = prior
    /\ oldest' = older
    /\ ncalls' = ncalls + 1

\* no call has been made yet
NoCall == Call("new_undefined", Implicit, 0, FALSE, 0, new_undefined)

\* a new State, in a run followed for n calls
Start(n) ==
    /\ pc = new_undefined.pc
    /\ sp = new_undefined.sp
    /\ psw = new_undefined.psw
    /\ accumulator = new_undefined.accumulator
    /\ x = new_undefined.x
    /\ y = new_undefined.y
    /\ ram = new_undefined.ram
    /\ panicked = new_undefined.panicked
    /\ overflow_checks \in BOOLEAN
    /\ last = NoCall
    /\ prior = NoCall
    /\ older = NoCall
    /\ oldest = NoCall
    /\ ncalls = 0
    /\ limit = n

Init == Start(MaxCalls)

\* a call can be made: no panic has ended the run
CanCall == ~panicked /\ ncalls < limit

\* the owner of the State writes its pub fields before it makes the first call,
\* as every test of the repository does
CanWrite == ~panicked /\ ncalls = 0

\* values the callers pass
ByteSamples == {0, 1, 127, 128, 255}
PcSamples == {0, 1, 258, 1791, 1792, 65280}
AddrSamples == {0, 256, 511, 2047, 2048, 65535}

WritePc(v) ==
    /\ CanWrite
    /\ Take([Cur EXCEPT !.pc = v])
    /\ UNCHANGED <<last, prior, older, oldest, ncalls>>

WriteSp(v) ==
    /\ CanWrite
    /\ Take([Cur EXCEPT !.sp = v])
    /\ UNCHANGED <<last, prior, older, oldest, ncalls>>

WritePsw(v) ==
    /\ CanWrite
    /\ Take([Cur EXCEPT !.psw = v])
    /\ UNCHANGED <<last, prior, older, oldest, ncalls>>

WriteAccumulator(v) ==
    /\ CanWrite
    /\ Take([Cur EXCEPT !.accumulator = v])
    /\ UNCHANGED <<last, prior, older, oldest, ncalls>>

\* the owner writes all the registers
WriteRegisters(r) ==
    /\ CanWrite
    /\ Take([Cur EXCEPT !.pc = r.pc, !.sp = r.sp, !.accumulator = r.accumulator,
                        !.x = r.x, !.y = r.y])
    /\ UNCHANGED <<last, prior, older, oldest, ncalls>>

\* the owner populates memory before the first call
LoadRam(addr, value) ==
    /\ CanWrite
    /\ addr < RamSize
    /\ Take(ram_set(Cur, addr, value))
    /\ UNCHANGED <<last, prior, older, oldest, ncalls>>

\* the owner populates memory with a whole image before the first call
LoadImage(img) ==
    /\ CanWrite
    /\ Take([Cur EXCEPT !.ram = img])
    /\ UNCHANGED <<last, prior, older, oldest, ncalls>>

RamGet(addr) ==
    /\ CanCall
    /\ LET r == ram_get(Cur, addr)
       IN Commit(r.s, "ram_get", Operand("Absolute", addr), 0, FALSE, r.v)

RamSet(addr, value) ==
    /\ CanCall
    /\ Commit(ram_set(Cur, addr, value), "ram_set", Operand("Absolute", addr),
              value, FALSE, 0)

StackPush(val) ==
    /\ CanCall
    /\ Commit(stack_push(Cur, val), "stack_push", Implicit, val, FALSE, 0)

StackPop ==
    /\ CanCall
    /\ LET r == stack_pop(Cur)
       IN Commit(r.s, "stack_pop", Implicit, 0, FALSE, r.v)

PushPc ==
    /\ CanCall
    /\ Commit(push_pc(Cur), "push_pc", Implicit, 0, FALSE, 0)

PopPc ==
    /\ CanCall
    /\ Commit(pop_pc(Cur), "pop_pc", Implicit, 0, FALSE, 0)

SetCarry(v) ==
    /\ CanCall
    /\ Commit(set_carry(Cur, v), "set_carry", Implicit, 0, v, 0)

SetZero(v) ==
    /\ CanCall
    /\ Commit(set_zero(Cur, v), "set_zero", Implicit, 0, v, 0)

SetInterrupt(v) ==
    /\ CanCall
    /\ Commit(set_interrupt(Cur, v), "set_interrupt", Implicit, 0, v, 0)

SetBreak(v) ==
    /\ CanCall
    /\ Commit(set_break(Cur, v), "set_break", Implicit, 0, v, 0)

SetOverflow(v) ==
    /\ CanCall
    /\ Commit(set_overflow(Cur, v), "set_overflow", Implicit, 0, v, 0)

SetNegative(v) ==
    /\ CanCall
    /\ Commit(set_negative(Cur, v), "set_negative", Implicit, 0, v, 0)

\* the handlers of execution.rs and alu.rs: fn(state, op)
Brk(op) ==
    /\ CanCall
    /\ Commit(brk(Cur, op), "brk", op, 0, FALSE, 0)

Rti(op) ==
    /\ CanCall
    /\ Commit(rti(Cur, op), "rti", op, 0, FALSE, 0)

Jsr(op) ==
    /\ CanCall
    /\ Commit(jsr(Cur, op), "jsr", op, 0, FALSE, 0)

Rts(op) ==
    /\ CanCall
    /\ Commit(rts(Cur, op), "rts", op, 0, FALSE, 0)

Pha(op) ==
    /\ CanCall
    /\ Commit(pha(Cur, op), "pha", op, 0, FALSE, 0)

Php(op) ==
    /\ CanCall
    /\ Commit(php(Cur, op), "php", op, 0, FALSE, 0)

Pla(op) ==
    /\ CanCall
    /\ Commit(pla(Cur, op), "pla", op, 0, FALSE, 0)

Plp(op) ==
    /\ CanCall
    /\ Commit(plp(Cur, op), "plp", op, 0, FALSE, 0)

Adc(op) ==
    /\ CanCall
    /\ Commit(adc(Cur, op), "adc", op, 0, FALSE, 0)

And(op) ==
    /\ CanCall
    /\ Commit(and(Cur, op), "and", op, 0, FALSE, 0)

Ora(op) ==
    /\ CanCall
    /\ Commit(ora(Cur, op), "ora", op, 0, FALSE, 0)

Eor(op) ==
    /\ CanCall
    /\ Commit(eor(Cur, op), "eor", op, 0, FALSE, 0)

Asl(op) ==
    /\ CanCall
    /\ Commit(asl(Cur, op), "asl", op, 0, FALSE, 0)

Lsr(op) ==
    /\ CanCall
    /\ Commit(lsr(Cur, op), "lsr", op, 0, FALSE, 0)

Rol(op) ==
    /\ CanCall
    /\ Commit(rol(Cur, op), "rol", op, 0, FALSE, 0)

Ror(op) ==
    /\ CanCall
    /\ Commit(ror(Cur, op), "ror", op, 0, FALSE, 0)

Dec(op) ==
    /\ CanCall
    /\ Commit(dec(Cur, op), "dec", op, 0, FALSE, 0)

Inc(op) ==
    /\ CanCall
    /\ Commit(inc(Cur, op), "inc", op, 0, FALSE, 0)

Dex(op) ==
    /\ CanCall
    /\ Commit(dex(Cur, op), "dex", op, 0, FALSE, 0)

Dey(op) ==
    /\ CanCall
    /\ Commit(dey(Cur, op), "dey", op, 0, FALSE, 0)

Inx(op) ==
    /\ CanCall
    /\ Commit(inx(Cur, op), "inx", op, 0, FALSE, 0)

Iny(op) ==
    /\ CanCall
    /\ Commit(iny(Cur, op), "iny", op, 0, FALSE, 0)

Bit(op) ==
    /\ CanCall
    /\ Commit(bit(Cur, op), "bit", op, 0, FALSE, 0)

Clc(op) ==
    /\ CanCall
    /\ Commit(clc(Cur, op), "clc", op, 0, FALSE, 0)

Sec(op) ==
    /\ CanCall
    /\ Commit(sec(Cur, op), "sec", op, 0, FALSE, 0)

Cli(op) ==
    /\ CanCall
    /\ Commit(cli(Cur, op), "cli", op, 0, FALSE, 0)

Sei(op) ==
    /\ CanCall
    /\ Commit(sei(Cur, op), "sei", op, 0, FALSE, 0)

Clv(op) ==
    /\ CanCall
    /\ Commit(clv(Cur, op), "clv", op, 0, FALSE, 0)

\* the functions of operand_decoder.rs; flag records Some / Ok
GetPointer(op) ==
    /\ CanCall
    /\ LET r == get_pointer(op, Cur)
       IN Commit(r.s, "get_pointer", op, 0, r.some /\ ~r.s.panicked, r.v)

GetU8(op) ==
    /\ CanCall
    /\ LET r == get_u8(op, Cur)
       IN Commit(r.s, "get_u8", op, 0, r.some /\ ~r.s.panicked, r.v)

SetU8(op, val) ==
    /\ CanCall
    /\ LET r == set_u8(op, val, Cur)
       IN Commit(r.s, "set_u8", op, val, r.v, 0)

Bcc(op) ==
    /\ CanCall
    /\ Commit(bcc(Cur, op), "bcc", op, 0, FALSE, 0)

Bcs(op) ==
    /\ CanCall
    /\ Commit(bcs(Cur, op), "bcs", op, 0, FALSE, 0)

Beq(op) ==
    /\ CanCall
    /\ Commit(beq(Cur, op), "beq", op, 0, FALSE, 0)

Bne(op) ==
    /\ CanCall
    /\ Commit(bne(Cur, op), "bne", op, 0, FALSE, 0)

Bmi(op) ==
    /\ CanCall
    /\ Commit(bmi(Cur, op), "bmi", op, 0, FALSE, 0)

Bpl(op) ==
    /\ CanCall
    /\ Commit(bpl(Cur, op), "bpl", op, 0, FALSE, 0)

Bvc(op) ==
    /\ CanCall
    /\ Commit(bvc(Cur, op), "bvc", op, 0, FALSE, 0)

Bvs(op) ==
    /\ CanCall
    /\ Commit(bvs(Cur, op), "bvs", op, 0, FALSE, 0)

Sbc(op) ==
    /\ CanCall
    /\ Commit(sbc(Cur, op), "sbc", op, 0, FALSE, 0)

Cmp(op) ==
    /\ CanCall
    /\ Commit(cmp(Cur, op), "cmp", op, 0, FALSE, 0)

Cpx(op) ==
    /\ CanCall
    /\ Commit(cpx(Cur, op), "cpx", op, 0, FALSE, 0)

Cpy(op) ==
    /\ CanCall
    /\ Commit(cpy(Cur, op), "cpy", op, 0, FALSE, 0)

\* Processor State: memory, the stack and the program counter on the stack
Next ==
    \/ \E v \in PcSamples : WritePc(v)
    \/ \E v \in ByteSamples : WriteSp(v)
    \/ \E a \in AddrSamples : RamGet(a)
    \/ \E a \in AddrSamples, v \in ByteSamples : RamSet(a, v)
    \/ \E v \in ByteSamples : StackPush(v)
    \/ StackPop
    \/ PushPc
    \/ PopPc

Spec == Init /\ [][Next]_vars

\* Processor State: the flag accessors, from every value of psw
RegisterSamples ==
    {[pc |-> 258, sp |-> 253, accumulator |-> 170, x |-> 85, y |-> 15]}

FlagsNext ==
    \/ \E v \in Byte : WritePsw(v)
    \/ \E r \in RegisterSamples : WriteRegisters(r)
    \/ LoadRam(511, 204)
    \/ \E v \in BOOLEAN : ncalls < MaxFlagCalls /\ SetCarry(v)
    \/ \E v \in BOOLEAN : ncalls < MaxFlagCalls /\ SetZero(v)
    \/ \E v \in BOOLEAN : ncalls < MaxFlagCalls /\ SetInterrupt(v)
    \/ \E v \in BOOLEAN : ncalls < MaxFlagCalls /\ SetBreak(v)
    \/ \E v \in BOOLEAN : ncalls < MaxFlagCalls /\ SetOverflow(v)
    \/ \E v \in BOOLEAN : ncalls < MaxFlagCalls /\ SetNegative(v)

SpecFlags == Init /\ [][FlagsNext]_vars

\* Control Unit: subroutine linkage, interrupt entry and exit, stack instructions
JsrOperands == {Absolute(1), Absolute(513), Absolute(65535), Implicit}
BrkOperands == {Implicit, Accumulator}

ControlNext ==
    \/ \E v \in {1, 258, 1792} : WritePc(v)
    \/ \E v \in {128, 255} : WriteSp(v)
    \/ WriteAccumulator(170)
    \/ \E a \in {256, 257}, v \in {1, 223} : LoadRam(a, v)
    \/ \E v \in BOOLEAN : SetCarry(v)
    \/ \E v \in BOOLEAN : SetZero(v)
    \/ \E v \in BOOLEAN : SetInterrupt(v)
    \/ \E v \in BOOLEAN : SetBreak(v)
    \/ \E v \in BOOLEAN : SetOverflow(v)
    \/ \E v \in BOOLEAN : SetNegative(v)
    \/ \E op \in JsrOperands : Jsr(op)
    \/ Rts(Implicit)
    \/ \E op \in BrkOperands : Brk(op)
    \/ \E op \in BrkOperands : Rti(op)
    \/ Pha(Implicit)
    \/ Php(Implicit)
    \/ Pla(Implicit)
    \/ Plp(Implicit)

SpecControl == Init /\ [][ControlNext]_vars

\* Control Unit: the branch instructions
BranchRegisters ==
    {[pc |-> p, sp |-> 253, accumulator |-> 170, x |-> 85, y |-> 15] :
        p \in {0, 258, 65535}}

\* every value of Carry, Zero, Overflow and Negative, the other bits as in
\* new_undefined
BranchPswSamples ==
    {PSW_ONE_BIT + c * PSW_CARRY_BIT + z * PSW_ZERO_BIT + v * PSW_OVERFLOW_BIT
        + n * PSW_NEGATIVE_BIT : c \in 0..1, z \in 0..1, v \in 0..1, n \in 0..1}

BranchOperands == {Relative(-128), Relative(-5), Relative(127), Implicit}

InitBranch == Start(MaxBranchCalls)

BranchNext ==
    \/ \E r \in BranchRegisters : WriteRegisters(r)
    \/ \E v \in BranchPswSamples : WritePsw(v)
    \/ LoadRam(511, 204)
    \/ \E op \in BranchOperands : Bcc(op)
    \/ \E op \in BranchOperands : Bcs(op)
    \/ \E op \in BranchOperands : Beq(op)
    \/ \E op \in BranchOperands : Bne(op)
    \/ \E op \in BranchOperands : Bmi(op)
    \/ \E op \in BranchOperands : Bpl(op)
    \/ \E op \in BranchOperands : Bvc(op)
    \/ \E op \in BranchOperands : Bvs(op)

SpecBranch == InitBranch /\ [][BranchNext]_vars

\* Control Unit: the flag instructions, from every value of psw
InitFlagInst == Start(MaxFlagCalls)

FlagInstNext ==
    \/ \E v \in Byte : WritePsw(v)
    \/ \E r \in RegisterSamples : WriteRegisters(r)
    \/ LoadRam(511, 204)
    \/ Clc(Implicit)
    \/ Sec(Implicit)
    \/ Cli(Implicit)
    \/ Sei(Implicit)
    \/ Clv(Implicit)

SpecFlagInst == InitFlagInst /\ [][FlagInstNext]_vars

\* Control Unit: the bit test
BitBytes == {0, 64, 127, 128, 192, 255}

\* every value of Zero, Overflow and Negative, the other bits as in new_undefined
BitPswSamples ==
    {PSW_ONE_BIT + z * PSW_ZERO_BIT + v * PSW_OVERFLOW_BIT + n * PSW_NEGATIVE_BIT :
        z \in 0..1, v \in 0..1, n \in 0..1}

BitOperands ==
    {Immediate(m) : m \in BitBytes} \cup {Absolute(16), Absolute(2048), Implicit}

InitBit == Start(MaxFlagCalls)

BitNext ==
    \/ \E v \in BitBytes : WriteAccumulator(v)
    \/ \E v \in BitPswSamples : WritePsw(v)
    \/ \E v \in {64, 192} : LoadRam(16, v)
    \/ \E op \in BitOperands : Bit(op)

SpecBit == InitBit /\ [][BitNext]_vars

\* Operand resolver
DecoderRegisters ==
    {[pc |-> 16, sp |-> 253, accumulator |-> 170, x |-> 17, y |-> 1],
     [pc |-> 65535, sp |-> 253, accumulator |-> 170, x |-> 255, y |-> 255]}

\* memory images: a pointer at 27/28, a pointer across the end of page zero
\* (255/0, with another byte at 256), and the pointer 0xFFFF at 27/28
DecoderImages ==
    {(27 :> 252) @@ (28 :> 186),
     (0 :> 18) @@ (254 :> 86) @@ (255 :> 52) @@ (256 :> 119),
     (27 :> 255) @@ (28 :> 255)}

DecoderOperands ==
    {Implicit, Accumulator, Immediate(7), ZeroPage(27), ZeroPageX(250),
     ZeroPageY(250), Relative(-5), Relative(5), Absolute(27), Absolute(2048),
     AbsoluteX(65535), AbsoluteY(2040), Indirect(27), Indirect(2047),
     IndexedIndirect(10), IndexedIndirect(238), IndexedIndirect(255),
     IndirectIndexed(27), IndirectIndexed(255)}

InitDecoder == Start(MaxDecoderCalls)

DecoderNext ==
    \/ \E r \in DecoderRegisters : WriteRegisters(r)
    \/ \E img \in DecoderImages : LoadImage(img)
    \/ \E op \in DecoderOperands : GetPointer(op)
    \/ \E op \in DecoderOperands : GetU8(op)
    \/ \E op \in DecoderOperands : SetU8(op, 99)

SpecDecoder == InitDecoder /\ [][DecoderNext]_vars

\* ALU: add with carry
AdcOperands ==
    {Immediate(v) : v \in ByteSamples} \cup {Absolute(16), Absolute(2047), Implicit}

\* status bytes with Overflow set: Carry clear, Carry set
AluPswSamples == {96, 97}

AluNext ==
    \/ \E v \in ByteSamples \cup {2, 126, 254} : WriteAccumulator(v)
    \/ \E v \in AluPswSamples : WritePsw(v)
    \/ \E a \in {16, 2047}, v \in {1, 255} : LoadRam(a, v)
    \/ \E v \in BOOLEAN : SetCarry(v)
    \/ \E op \in AdcOperands : Adc(op)
    \/ \E op \in AdcOperands : Sbc(op)

SpecAlu == Init /\ [][AluNext]_vars

\* ALU: add, force the Carry, subtract
InverseBytes == {0, 100, 200, 255}

InitInverse == Start(MaxInverseCalls)

InverseNext ==
    \/ \E v \in InverseBytes : WriteAccumulator(v)
    \/ \E b \in InverseBytes : Adc(Immediate(b))
    \/ SetCarry(TRUE)
    \/ \E b \in InverseBytes : Sbc(Immediate(b))

SpecInverse == InitInverse /\ [][InverseNext]_vars

\* ALU: shifts and rotates
ShiftOperands == {Accumulator, Absolute(16), Immediate(1), Implicit}

\* status bytes: Carry set; Carry, Zero and Negative set
ShiftPswSamples == {33, 163}

ShiftNext ==
    \/ \E v \in {1, 128, 255} : WriteAccumulator(v)
    \/ \E v \in ShiftPswSamples : WritePsw(v)
    \/ \E v \in {1, 128} : LoadRam(16, v)
    \/ \E op \in ShiftOperands : Asl(op)
    \/ \E op \in ShiftOperands : Lsr(op)
    \/ \E op \in ShiftOperands : Rol(op)
    \/ \E op \in ShiftOperands : Ror(op)

SpecShift == Init /\ [][ShiftNext]_vars

\* every handler that takes its operand's shape on trust
ShapeRegisters ==
    {[pc |-> 258, sp |-> 253, accumulator |-> 170, x |-> 3, y |-> 5]}

ShapeValueOperands == {Implicit, Immediate(1), Absolute(16)}

ShapeBranchOperands == {Relative(2), Absolute(16), Implicit}

ShapeControlOperands == {Implicit, Accumulator, Absolute(16)}

InitShape == Start(MaxShapeCalls)

ShapeNext ==
    \/ \E r \in ShapeRegisters : WriteRegisters(r)
    \/ WritePsw(227)
    \/ LoadRam(16, 129)
    \/ \E op \in ShapeValueOperands : Adc(op)
    \/ \E op \in ShapeValueOperands : Sbc(op)
    \/ \E op \in ShapeValueOperands : And(op)
    \/ \E op \in ShapeValueOperands : Ora(op)
    \/ \E op \in ShapeValueOperands : Eor(op)
    \/ \E op \in ShapeValueOperands : Cmp(op)
    \/ \E op \in ShapeValueOperands : Cpx(op)
    \/ \E op \in ShapeValueOperands : Cpy(op)
    \/ \E op \in ShapeValueOperands : Bit(op)
    \/ \E op \in ShapeValueOperands : Asl(op)
    \/ \E op \in ShapeValueOperands : Lsr(op)
    \/ \E op \in ShapeValueOperands : Rol(op)
    \/ \E op \in ShapeValueOperands : Ror(op)
    \/ \E op \in ShapeValueOperands : Inc(op)
    \/ \E op \in ShapeValueOperands : Dec(op)
    \/ \E op \in ShapeBranchOperands : Bcc(op)
    \/ \E op \in ShapeBranchOperands : Bcs(op)
    \/ \E op \in ShapeBranchOperands : Beq(op)
    \/ \E op \in ShapeBranchOperands : Bne(op)
    \/ \E op \in ShapeBranchOperands : Bmi(op)
    \/ \E op \in ShapeBranchOperands : Bpl(op)
    \/ \E op \in ShapeBranchOperands : Bvc(op)
    \/ \E op \in ShapeBranchOperands : Bvs(op)
    \/ \E op \in ShapeControlOperands : Brk(op)
    \/ \E op \in ShapeControlOperands : Rti(op)

SpecShape == InitShape /\ [][ShapeNext]_vars

\* State: a run of pushes and pops
InitLifo == Start(MaxLifoCalls)

LifoNext ==
    \/ \E v \in {128, 1792} : WritePc(v)
    \/ \E v \in {1, 255} : WriteSp(v)
    \/ \E v \in {17, 34} : StackPush(v)
    \/ StackPop

SpecLifo == InitLifo /\ [][LifoNext]_vars

\* ALU: the bitwise instructions on the accumulator
LogicRegisters ==
    {[pc |-> 258, sp |-> 253, accumulator |-> 255, x |-> 1, y |-> 2],
     [pc |-> 258, sp |-> 253, accumulator |-> 90, x |-> 1, y |-> 2]}

LogicOperands ==
    {Immediate(0), Immediate(15), Immediate(165), Immediate(255), Absolute(16),
     Implicit}

LogicNext ==
    \/ \E r \in LogicRegisters : WriteRegisters(r)
    \/ WritePsw(97)
    \/ \E v \in {60, 195} : LoadRam(16, v)
    \/ \E op \in LogicOperands : And(op)
    \/ \E op \in LogicOperands : Ora(op)
    \/ \E op \in LogicOperands : Eor(op)

SpecLogic == Init /\ [][LogicNext]_vars

\* ALU: increments and decrements
StepRegisters ==
    {[pc |-> 258, sp |-> 253, accumulator |-> 170, x |-> 255, y |-> 127],
     [pc |-> 258, sp |-> 253, accumulator |-> 170, x |-> 128, y |-> 1]}

StepOperands == {Absolute(16), ZeroPage(16), Accumulator, Implicit}

StepNext ==
    \/ \E r \in StepRegisters : WriteRegisters(r)
    \/ WritePsw(97)
    \/ \E v \in {1, 127, 255} : LoadRam(16, v)
    \/ \E op \in StepOperands : Inc(op)
    \/ \E op \in StepOperands : Dec(op)
    \/ Inx(Implicit)
    \/ Iny(Implicit)
    \/ Dex(Implicit)
    \/ Dey(Implicit)

SpecStep == Init /\ [][StepNext]_vars

\* ALU: the compare instructions
CompareRegisters ==
    {[pc |-> 258, sp |-> 253, accumulator |-> 1, x |-> 128, y |-> 255],
     [pc |-> 258, sp |-> 253, accumulator |-> 128, x |-> 255, y |-> 1],
     [pc |-> 258, sp |-> 253, accumulator |-> 255, x |-> 1, y |-> 128]}

\* status bytes: Overflow set, and Carry, Zero, Overflow and Negative set
ComparePswSamples == {96, 227}

CompareOperands ==
    {Immediate(v) : v \in {0, 1, 128, 255}} \cup {Absolute(16), Implicit}

CompareNext ==
    \/ \E r \in CompareRegisters : WriteRegisters(r)
    \/ \E v \in ComparePswSamples : WritePsw(v)
    \/ \E v \in {1, 128} : LoadRam(16, v)
    \/ \E op \in CompareOperands : Cmp(op)
    \/ \E op \in CompareOperands : Cpx(op)
    \/ \E op \in CompareOperands : Cpy(op)

SpecCompare == Init /\ [][CompareNext]_vars

----------------------------------------------------------------------------
(* Claims on the Processor State (state.rs), checked under Spec *)

\* the latest call is fn, and it followed a call of fn0 with nothing in between
Then(fn0, fn) == prior.fn = fn0 /\ last.fn = fn

\* registers and memory are what they were before the latest call
SameRegisters ==
    /\ pc = last.pre.pc
    /\ sp = last.pre.sp
    /\ accumulator = last.pre.accumulator
    /\ x = last.pre.x
    /\ y = last.pre.y

SameRam == ram = last.pre.ram

\* C1: stack_push(v) stores v at 0x0100 + sp (sp as before the call), changes
\* no other memory byte, and then sets sp to (sp - 1) mod 256, whatever pc is.
C1_StackPushSlot ==
    last.fn = "stack_push" =>
        /\ ~panicked
        /\ ram = Store(last.pre.ram, STACK_OFFSET + last.pre.sp, last.val)
        /\ sp = U8(last.pre.sp + 255)

\* C2: in every state, stack_push(v) immediately followed by stack_pop()
\* returns v without failing and leaves sp as it was before the push.
C2_PushPopRoundTrip ==
    /\ last.fn = "stack_push" => ~panicked
    /\ Then("stack_push", "stack_pop") =>
           /\ ~panicked
           /\ last.ret = prior.val
           /\ sp = prior.pre.sp

\* C3: push_pc pushes the high byte of pc first and the low byte second (the
\* high byte lands in the slot 0x0100 + sp, the low byte in the slot below it),
\* and push_pc followed by pop_pc restores pc and sp.
C3_PushPcPopPc ==
    /\ last.fn = "push_pc" =>
           /\ ~panicked
           /\ Load(ram, STACK_OFFSET + last.pre.sp) = last.pre.pc \div 256
           /\ Load(ram, STACK_OFFSET + U8(last.pre.sp + 255)) = U8(last.pre.pc)
           /\ sp = U8(last.pre.sp + 254)
    /\ Then("push_pc", "pop_pc") =>
           /\ ~panicked
           /\ pc = prior.pre.pc
           /\ sp = prior.pre.sp

\* C9: ram_set and ram_get never fail, for any 16-bit address, and ram_get
\* returns the byte ram_set stored at that address.
C9_RamTotal ==
    /\ last.fn = "ram_set" => ~panicked /\ Load(ram, last.op.val) = last.val
    /\ last.fn = "ram_get" => ~panicked
    /\ (Then("ram_set", "ram_get") /\ last.op = prior.op) => last.ret = prior.val

----------------------------------------------------------------------------
(* Claims on the flag accessors (state.rs), checked under SpecFlags *)

\* the six flags with a getter and a setter
FlagMasks ==
    [set_carry |-> PSW_CARRY_BIT, set_zero |-> PSW_ZERO_BIT,
     set_interrupt |-> PSW_INTERRUPT_BIT, set_break |-> PSW_BREAK_BIT,
     set_overflow |-> PSW_OVERFLOW_BIT, set_negative |-> PSW_NEGATIVE_BIT]

FlagSetters == DOMAIN FlagMasks

\* the getter that goes with a setter
GetterOf(setter, s) ==
    CASE setter = "set_carry" -> get_carry(s)
      [] setter = "set_zero" -> get_zero(s)
      [] setter = "set_interrupt" -> get_interrupt(s)
      [] setter = "set_break" -> get_break(s)
      [] setter = "set_overflow" -> get_overflow(s)
      [] setter = "set_negative" -> get_negative(s)

\* C8: after set_X(v), get_X() returns v, the other 7 bits of psw are as
\* before, and no register or memory byte has changed; the six flags are six
\* distinct single bits.
C8_FlagSetters ==
    /\ last.fn \in FlagSetters =>
           /\ ~panicked
           /\ GetterOf(last.fn, Cur) = last.flag
           /\ \A k \in 0..7 :
                  2 ^ k # FlagMasks[last.fn] => BitAt(psw, k) = BitAt(last.pre.psw, k)
           /\ SameRegisters
           /\ SameRam
    /\ Cardinality({FlagMasks[f] : f \in FlagSetters}) = 6
    /\ \A f \in FlagSetters : \E k \in 0..7 : FlagMasks[f] = 2 ^ k

\* C8 witness: a setter has turned a flag on in a status byte that had other
\* bits set and that flag clear, with registers and memory holding values
C8_Witness ==
    /\ last.fn = "set_overflow"
    /\ last.flag
    /\ last.pre.psw = 129
    /\ psw = 193
    /\ accumulator = 170
    /\ Load(ram, 511) = 204

----------------------------------------------------------------------------
(* Claims on the Control Unit (execution.rs), checked under SpecControl *)

\* C4: jsr(Absolute(t)) leaves pc = t and sp two lower (mod 256), and an rts
\* right after it leaves pc and sp as they were before the jsr.
C4_JsrRts ==
    /\ (last.fn = "jsr" /\ last.op.kind = "Absolute") =>
           /\ ~panicked
           /\ pc = last.op.val
           /\ sp = U8(last.pre.sp + 254)
    /\ (Then("jsr", "rts") /\ prior.op.kind = "Absolute") =>
           /\ ~panicked
           /\ pc = prior.pre.pc
           /\ sp = prior.pre.sp

\* the little-endian 16-bit value stored at addr and addr + 1
Le16At(mem, addr) == Load(mem, addr + 1) * 256 + Load(mem, addr)

\* C5: brk(Implicit) completes; it has pushed pc and then the psw of before
\* the call (sp is three lower mod 256, the status byte is in the last slot
\* written), the Break flag is set and pc is the vector at 0xFFFE/0xFFFF.
C5_Brk ==
    (last.fn = "brk" /\ last.op = Implicit) =>
        /\ ~panicked
        /\ sp = U8(last.pre.sp + 253)
        /\ Load(ram, STACK_OFFSET + U8(last.pre.sp + 254)) = last.pre.psw
        /\ get_break(Cur)
        /\ pc = Le16At(ram, 65534)

\* C6: brk(Implicit) and then rti(Implicit), with nothing in between, leave
\* pc, psw and sp as they were before the brk.
C6_BrkRti ==
    /\ (last.fn = "brk" /\ last.op = Implicit) => ~panicked
    /\ (Then("brk", "rti") /\ prior.op = Implicit /\ last.op = Implicit) =>
           /\ ~panicked
           /\ pc = prior.pre.pc
           /\ psw = prior.pre.psw
           /\ sp = prior.pre.sp

\* C7: bit 5 of psw is 1 in every state reached from new_undefined() by flag
\* setters and instruction handlers.
C7_BitFiveSet == BitAt(psw, 5) = 1

----------------------------------------------------------------------------
(* Claims on the ALU (alu.rs), checked under SpecAlu *)

\* 1 if the Carry flag is set in s, else 0
CarryIn(s) == IF get_carry(s) THEN 1 ELSE 0

\* the value an Immediate or Absolute operand denotes in s
OperandValue(op, s) ==
    IF op.kind = "Immediate" THEN op.val ELSE Load(s.ram, op.val)

\* C10: adc with accumulator a, Carry c and an operand of value b completes,
\* leaves accumulator = (a + b + c) mod 256 and Carry = (a + b + c > 255), and
\* derives Zero and Negative from that result.
C10_AdcSumCarry ==
    (last.fn = "adc" /\ last.op.kind \in {"Immediate", "Absolute"}) =>
        LET sum == last.pre.accumulator + OperandValue(last.op, last.pre)
                   + CarryIn(last.pre)
        IN /\ ~panicked
           /\ accumulator = sum % 256
           /\ get_carry(Cur) = (sum > 255)
           /\ get_zero(Cur) = (sum % 256 = 0)
           /\ get_negative(Cur) = (sum % 256 >= 128)

\* bit 7 of v differs from bit 7 of w
SignDiffers(v, w) == BitAt(v, 7) # BitAt(w, 7)

\* C11: after adc with accumulator a, Carry c and an operand of value b, the
\* Overflow flag is set iff a and b have the same sign bit and the wrapped
\* result (a + b + c) mod 256 has a sign bit different from a's.
C11_AdcOverflow ==
    (last.fn = "adc" /\ last.op.kind = "Immediate") =>
        LET a == last.pre.accumulator
            b == OperandValue(last.op, last.pre)
            r == (a + b + CarryIn(last.pre)) % 256
        IN get_overflow(Cur) = (~SignDiffers(a, b) /\ SignDiffers(r, a))

\* C12: sbc with accumulator a, Carry c and an operand of value b completes,
\* leaves accumulator = (a - b - (1 - c)) mod 256 and Carry = (a >= b + (1 - c)),
\* and derives Zero and Negative from that result.
C12_SbcDiffCarry ==
    (last.fn = "sbc" /\ last.op.kind \in {"Immediate", "Absolute"}) =>
        LET a == last.pre.accumulator
            b == OperandValue(last.op, last.pre) + (1 - CarryIn(last.pre))
            r == (a - b + 512) % 256
        IN /\ ~panicked
           /\ accumulator = r
           /\ get_carry(Cur) = (a >= b)
           /\ get_zero(Cur) = (r = 0)
           /\ get_negative(Cur) = (r >= 128)

\* C13: after sbc with accumulator a, Carry c and an operand of value b, the
\* Overflow flag is set iff a and b have different sign bits and the wrapped
\* result (a - b - (1 - c)) mod 256 has a sign bit different from a's.
C13_SbcOverflow ==
    (last.fn = "sbc" /\ last.op.kind \in {"Immediate", "Absolute"}) =>
        LET a == last.pre.accumulator
            b == OperandValue(last.op, last.pre)
            r == (a - b - (1 - CarryIn(last.pre)) + 512) % 256
        IN get_overflow(Cur) = (SignDiffers(a, b) /\ SignDiffers(r, a))

----------------------------------------------------------------------------
(* Claims on adc and sbc in a row, checked under SpecInverse *)

\* the three latest calls are adc(Immediate(b)) with Carry clear, set_carry(true)
\* and sbc(Immediate(b)), with nothing in between
AdcSetCarrySbc ==
    /\ older.fn = "adc"
    /\ older.op.kind = "Immediate"
    /\ ~get_carry(older.pre)
    /\ prior.fn = "set_carry"
    /\ prior.flag
    /\ last.fn = "sbc"
    /\ last.op = older.op

\* C14: from accumulator = a and Carry clear, adc(Immediate(b)), then
\* set_carry(true), then sbc(Immediate(b)) all complete and leave accumulator = a.
C14_SbcInvertsAdc ==
    /\ (last.fn = "adc" /\ last.op.kind = "Immediate" /\ ~get_carry(last.pre)) =>
           ~panicked
    /\ AdcSetCarrySbc => (~panicked /\ accumulator = older.pre.accumulator)

\* C14 witness: 200 + 100 wraps to 44, and 44 - 100 wraps back to 200, in a
\* build with overflow checks
C14_Witness ==
    /\ AdcSetCarrySbc
    /\ overflow_checks
    /\ older.pre.accumulator = 200
    /\ older.op.val = 100
    /\ last.pre.accumulator = 44
    /\ accumulator = 200

----------------------------------------------------------------------------
(* Claims on the compare instructions (alu.rs), checked under SpecCompare *)

\* the register a compare instruction reads, in s
ComparedRegister(fn, s) ==
    CASE fn = "cmp" -> s.accumulator
      [] fn = "cpx" -> s.x
      [] fn = "cpy" -> s.y

\* C15: cmp, cpx and cpy with register value r and operand value m complete,
\* also when r < m; they set Carry to (r >= m), Zero to (r = m) and Negative
\* to bit 7 of (r - m) mod 256, and leave the registers, the Overflow flag and
\* memory as they were.
C15_Compare ==
    (last.fn \in {"cmp", "cpx", "cpy"} /\ last.op.kind \in {"Immediate", "Absolute"}) =>
        LET r == ComparedRegister(last.fn, last.pre)
            m == OperandValue(last.op, last.pre)
        IN /\ ~panicked
           /\ get_carry(Cur) = (r >= m)
           /\ get_zero(Cur) = (r = m)
           /\ get_negative(Cur) = (BitAt((r - m + 256) % 256, 7) = 1)
           /\ get_overflow(Cur) = get_overflow(last.pre)
           /\ SameRegisters
           /\ SameRam

----------------------------------------------------------------------------
(* Claims on the branch instructions (execution.rs), checked under SpecBranch *)

Branches == {"bcc", "bcs", "beq", "bne", "bmi", "bpl", "bvc", "bvs"}

\* the flag predicate of a branch instruction, on the status byte p
BranchTaken(fn, p) ==
    CASE fn = "bcc" -> BitAt(p, 0) = 0
      [] fn = "bcs" -> BitAt(p, 0) = 1
      [] fn = "beq" -> BitAt(p, 1) = 1
      [] fn = "bne" -> BitAt(p, 1) = 0
      [] fn = "bmi" -> BitAt(p, 7) = 1
      [] fn = "bpl" -> BitAt(p, 7) = 0
      [] fn = "bvc" -> BitAt(p, 6) = 0
      [] fn = "bvs" -> BitAt(p, 6) = 1

\* C16: a branch instruction with Relative(offset) sets pc to
\* (pc + offset) mod 65536, offset taken as signed, when its flag predicate
\* holds and leaves pc alone otherwise; psw, sp, the registers and memory are
\* never changed.
C16_Branch ==
    (last.fn \in Branches /\ last.op.kind = "Relative") =>
        /\ ~panicked
        /\ pc = IF BranchTaken(last.fn, last.pre.psw)
                THEN (last.pre.pc + last.op.val + 65536) % 65536
                ELSE last.pre.pc
        /\ psw = last.pre.psw
        /\ sp = last.pre.sp
        /\ accumulator = last.pre.accumulator
        /\ x = last.pre.x
        /\ y = last.pre.y
        /\ SameRam

\* C16 witness: bcc(Relative(-5)) at pc = 0 with Carry clear wraps to 0xFFFB,
\* with values in the registers and in memory
C16_Witness ==
    /\ last.fn = "bcc"
    /\ last.op = Relative(-5)
    /\ last.pre.pc = 0
    /\ BitAt(last.pre.psw, 0) = 0
    /\ pc = 65531
    /\ accumulator = 170
    /\ Load(ram, 511) = 204

----------------------------------------------------------------------------
(* Claims on the operand resolver (operand_decoder.rs), checked under        *)
(* SpecDecoder                                                               *)

\* nothing of the State is different from before the latest call
SameState ==
    /\ SameRegisters
    /\ psw = last.pre.psw
    /\ SameRam

\* C17: set_u8 returns the not-writable error and changes nothing for
\* Implicit, Immediate and Relative; it writes the accumulator for Accumulator
\* and the resolved memory address for every other operand.
C17_SetU8 ==
    last.fn = "set_u8" =>
        /\ ~panicked
        /\ last.op.kind \in {"Implicit", "Immediate", "Relative"} =>
               (~last.flag /\ SameState)
        /\ last.op.kind = "Accumulator" =>
               /\ last.flag
               /\ accumulator = last.val
               /\ SameRam
        /\ last.op.kind \notin {"Implicit", "Immediate", "Relative", "Accumulator"} =>
               /\ last.flag
               /\ ram = Store(last.pre.ram, get_pointer(last.op, last.pre).v, last.val)
               /\ SameRegisters

\* C18: get_pointer never fails, and get_u8 never fails and returns Some for
\* every operand but Implicit, for which it returns None.
C18_ResolutionTotal ==
    /\ last.fn = "get_pointer" => ~panicked
    /\ last.fn = "get_u8" => (~panicked /\ (last.flag = (last.op # Implicit)))

\* C19: get_pointer(IndexedIndirect(o)) returns Some((hi << 8) | lo), lo the
\* byte at (o + x) mod 256 and hi the byte at (o + x + 1) mod 256, both in
\* page zero.
C19_IndexedIndirect ==
    (last.fn = "get_pointer" /\ last.op.kind = "IndexedIndirect") =>
        LET slot == (last.op.val + last.pre.x) % 256
        IN /\ ~panicked
           /\ last.flag
           /\ last.ret = Load(last.pre.ram, (slot + 1) % 256) * 256
                          + Load(last.pre.ram, slot)
           /\ SameState

\* C19 witness: o + x lands on 0xFF, the high byte comes from address 0 and
\* not from the byte stored at 0x0100
C19_Witness ==
    /\ last.fn = "get_pointer"
    /\ last.op = IndexedIndirect(238)
    /\ last.pre.x = 17
    /\ Load(last.pre.ram, 255) = 52
    /\ Load(last.pre.ram, 0) = 18
    /\ Load(last.pre.ram, 256) = 119
    /\ last.ret = 4660

----------------------------------------------------------------------------
(* Claims on the flag instructions (execution.rs), checked under SpecFlagInst *)

\* the bit of psw a flag instruction names, and the value it gives it
FlagInstBit ==
    [clc |-> 0, sec |-> 0, cli |-> 2, sei |-> 2, clv |-> 6]

FlagInstValue ==
    [clc |-> 0, sec |-> 1, cli |-> 0, sei |-> 1, clv |-> 0]

\* C20: clc / sec clear / set Carry, cli / sei clear / set Interrupt-disable and
\* clv clears Overflow; every other bit of psw, every register and all memory
\* are as before.
C20_FlagInstructions ==
    last.fn \in DOMAIN FlagInstBit =>
        /\ ~panicked
        /\ BitAt(psw, FlagInstBit[last.fn]) = FlagInstValue[last.fn]
        /\ \A k \in 0..7 :
               k # FlagInstBit[last.fn] => BitAt(psw, k) = BitAt(last.pre.psw, k)
        /\ SameRegisters
        /\ SameRam

----------------------------------------------------------------------------
(* Claims on the bit test (execution.rs), checked under SpecBit *)

\* the operand is a constant or a byte of ram: it denotes a value
Readable(op) ==
    \/ op.kind = "Immediate"
    \/ op.kind = "Absolute" /\ op.val < RamSize

\* C21: bit with accumulator a and operand value m leaves the accumulator as
\* it was and sets Zero to ((a & m) = 0), Negative to bit 7 of m and Overflow
\* to bit 6 of m.
C21_BitOperandBits ==
    (last.fn = "bit" /\ Readable(last.op)) =>
        LET a == last.pre.accumulator
            m == OperandValue(last.op, last.pre)
        IN /\ ~panicked
           /\ accumulator = a
           /\ get_zero(Cur) = (BitAnd(a, m) = 0)
           /\ get_negative(Cur) = (BitAt(m, 7) = 1)
           /\ get_overflow(Cur) = (BitAt(m, 6) = 1)

----------------------------------------------------------------------------
(* Claims on shifts and rotates (alu.rs), checked under SpecShift *)

\* the operand is the accumulator or a byte of ram: a place to write to
Place(op) ==
    \/ op.kind = "Accumulator"
    \/ op.kind = "Absolute" /\ op.val < RamSize

\* the byte in the place op denotes, in s
Held(op, s) ==
    IF op.kind = "Accumulator" THEN s.accumulator ELSE Load(s.ram, op.val)

\* C22: asl and lsr on the accumulator or on a byte of memory holding v give
\* Carry the bit shifted out, write the shifted value back to the place the
\* operand denotes and derive Zero and Negative from the shifted value.
C22_Shift ==
    (last.fn \in {"asl", "lsr"} /\ Place(last.op)) =>
        LET v == Held(last.op, last.pre)
            r == IF last.fn = "asl" THEN (v * 2) % 256 ELSE v \div 2
            out == IF last.fn = "asl" THEN BitAt(v, 7) ELSE BitAt(v, 0)
        IN /\ ~panicked
           /\ get_carry(Cur) = (out = 1)
           /\ Held(last.op, Cur) = r
           /\ get_zero(Cur) = (r = 0)
           /\ get_negative(Cur) = (BitAt(r, 7) = 1)

\* C23: rol and ror on the accumulator or on a byte of memory holding v, with
\* previous Carry c, write ((v << 1) mod 256) | c and (v >> 1) | (c << 7) back
\* to the place the operand denotes, give Carry bit 7 and bit 0 of v, and
\* derive Zero and Negative from the value written.
C23_Rotate ==
    (last.fn \in {"rol", "ror"} /\ Place(last.op)) =>
        LET v == Held(last.op, last.pre)
            c == CarryIn(last.pre)
            r == IF last.fn = "rol" THEN U8(v * 2) + c ELSE (v \div 2) + 128 * c
            out == IF last.fn = "rol" THEN BitAt(v, 7) ELSE BitAt(v, 0)
        IN /\ ~panicked
           /\ get_carry(Cur) = (out = 1)
           /\ Held(last.op, Cur) = r
           /\ get_zero(Cur) = (r = 0)
           /\ get_negative(Cur) = (BitAt(r, 7) = 1)

----------------------------------------------------------------------------
(* Claims on increments and decrements (alu.rs), checked under SpecStep *)

\* 1 for the instructions that add one, 255 (-1 mod 256) for the others
StepOf ==
    [dec |-> 255, inc |-> 1, dex |-> 255, dey |-> 255, inx |-> 1, iny |-> 1]

\* the byte an increment or decrement works on, in s
Stepped(fn, op, s) ==
    CASE fn \in {"inc", "dec"} -> Load(s.ram, op.val)
      [] fn \in {"inx", "dex"} -> s.x
      [] fn \in {"iny", "dey"} -> s.y

\* C24: inc and dec store (v + 1) mod 256 and (v - 1) mod 256 at the address of
\* their memory operand, inx, iny, dex and dey do the same to x and y; each
\* sets Zero and Negative from the new value and leaves Carry and Overflow as
\* they were.
C24_IncDec ==
    (/\ last.fn \in DOMAIN StepOf
     /\ last.fn \in {"inc", "dec"} =>
            (last.op.kind \in {"Absolute", "ZeroPage"} /\ last.op.val < RamSize)) =>
        LET r == (Stepped(last.fn, last.op, last.pre) + StepOf[last.fn]) % 256
        IN /\ ~panicked
           /\ Stepped(last.fn, last.op, Cur) = r
           /\ get_zero(Cur) = (r = 0)
           /\ get_negative(Cur) = (BitAt(r, 7) = 1)
           /\ get_carry(Cur) = get_carry(last.pre)
           /\ get_overflow(Cur) = get_overflow(last.pre)

----------------------------------------------------------------------------
(* Claims on and, ora and eor (alu.rs), checked under SpecLogic *)

\* the result the bitwise instruction fn has for accumulator a and operand m
LogicResult(fn, a, m) ==
    CASE fn = "and" -> BitAnd(a, m)
      [] fn = "ora" -> BitOr(a, m)
      [] fn = "eor" -> BitXor(a, m)

\* C25: and, ora and eor leave a & m, a | m and a ^ m in the accumulator, set
\* Zero and Negative from the result and leave Carry and Overflow as they were.
C25_Logic ==
    (last.fn \in {"and", "ora", "eor"} /\ Readable(last.op)) =>
        LET r == LogicResult(last.fn, last.pre.accumulator,
                             OperandValue(last.op, last.pre))
        IN /\ ~panicked
           /\ accumulator = r
           /\ get_zero(Cur) = (r = 0)
           /\ get_negative(Cur) = (BitAt(r, 7) = 1)
           /\ get_carry(Cur) = get_carry(last.pre)
           /\ get_overflow(Cur) = get_overflow(last.pre)

----------------------------------------------------------------------------
(* Claims on the stack instructions (execution.rs), checked under SpecControl *)

\* the byte the latest call pulled off the stack
Popped == stack_pop(last.pre).v

\* C26: pha and php push and change no flag; plp makes psw the popped byte;
\* pla makes the accumulator the popped byte and sets Zero and Negative from
\* it; php then plp leaves psw and sp as they were before the php, pha then pla
\* leaves the accumulator and sp as they were before the pha.
C26_StackInstructions ==
    /\ last.fn \in {"pha", "php"} =>
           /\ ~panicked
           /\ psw = last.pre.psw
    /\ last.fn = "plp" =>
           /\ ~panicked
           /\ psw = Popped
    /\ last.fn = "pla" =>
           /\ ~panicked
           /\ accumulator = Popped
           /\ get_zero(Cur) = (Popped = 0)
           /\ get_negative(Cur) = (BitAt(Popped, 7) = 1)
    /\ Then("php", "plp") =>
           /\ psw = prior.pre.psw
           /\ sp = prior.pre.sp
    /\ Then("pha", "pla") =>
           /\ accumulator = prior.pre.accumulator
           /\ sp = prior.pre.sp

----------------------------------------------------------------------------
(* Claims on operand shapes (alu.rs, execution.rs), checked under SpecShape *)

\* the arithmetic and logic handlers that need their operand to give a value
\* or a place
ValueHandlers ==
    {"adc", "sbc", "and", "ora", "eor", "cmp", "cpx", "cpy", "bit",
     "asl", "lsr", "rol", "ror", "inc", "dec"}

\* the latest call gave its handler an operand shape the handler rejects
WrongShape ==
    \/ last.fn \in ValueHandlers /\ last.op = Implicit
    \/ last.fn \in Branches /\ last.op.kind # "Relative"
    \/ last.fn \in {"brk", "rti"} /\ last.op # Implicit

\* C27: an arithmetic or logic handler given Implicit, a branch given an
\* operand that is not Relative, and brk and rti given an operand that is not
\* Implicit fail fatally, with registers, status byte and memory as they were
\* before the call.
C27_WrongShape == WrongShape => (panicked /\ SameState)

\* C27 witness: adc(Implicit) has failed in a state with registers, flags and
\* memory set up, and all of them are as they were
C27_Witness ==
    /\ last.fn = "adc"
    /\ last.op = Implicit
    /\ panicked
    /\ accumulator = 170
    /\ psw = 227
    /\ Load(ram, 16) = 129

----------------------------------------------------------------------------
(* Claims on runs of pushes and pops (state.rs), checked under SpecLifo *)

\* C28: after stack_push(v1), stack_push(v2), stack_pop(), stack_pop() the
\* first pop has returned v2, the second v1, and sp is what it was before the
\* first push.
C28_Lifo ==
    (/\ oldest.fn = "stack_push"
     /\ older.fn = "stack_push"
     /\ prior.fn = "stack_pop"
     /\ last.fn = "stack_pop") =>
        /\ ~panicked
        /\ prior.ret = older.val
        /\ last.ret = oldest.val
        /\ sp = oldest.pre.sp

====
